---------------------------- MODULE Spec2Model ----------------------------
(***************************************************************************)
(* Model of src/main.go: the fitness-tracker calculation layer (Training,  *)
(* Running, Walking, Swimming, InfoMessage, ReadData).                     *)
(*                                                                         *)
(* Numbers.  The program computes in float64: binary floating point with   *)
(* 53 significant bits, every result rounded to the nearest value, ties to *)
(* even, and with the specials +Inf and NaN that a division by zero gives. *)
(* The model computes in decimal floating point with 8 significant digits, *)
(* every result rounded to the nearest value, ties to even, and with the   *)
(* same specials.  Its relative rounding error (5e-8 for one operation) is *)
(* larger than that of float64 (1.1e-16), and the decimal literals of the  *)
(* program (0.65, 1.79, 0.035 ...) are exact in it.  The code never        *)
(* subtracts and the inputs of the model are non-negative, so no negative  *)
(* value and no -Inf arises.  The numerical statements below are stated    *)
(* with the tolerance the specification gives them (1e-2).                 *)
(*                                                                         *)
(* Text.  The labels and training-type names of the source are Cyrillic;   *)
(* they are written here in the English wording of spec.md section 4.5.    *)
(***************************************************************************)
EXTENDS Integers, Sequences, FiniteSets, TLC

(***************************************************************************)
(* float64 values: [k |-> "fin", m |-> mantissa, e |-> exponent] is the    *)
(* finite value m * 10^e, with m = 0 and e = 0 for zero and                *)
(* 10^7 <= m < 10^8 otherwise; FInf and FNaN are +Inf and NaN.             *)
(*                                                                         *)
(* The operators compute their arguments once, before their body:          *)
(*     CHOOSE r \in {body : v \in {arg}} : TRUE                            *)
(* is body with v standing for the value of arg.                           *)
(***************************************************************************)
\* 10^k for k in 0 .. 9.
Pow10(k) ==
    <<1, 10, 100, 1000, 10000, 100000, 1000000, 10000000, 100000000,
      1000000000>>[k + 1]

\* The number of decimal digits of v, for 1 <= v < 2^31.
NumDigits(v) ==
    CHOOSE n \in 1 .. 10 : v >= Pow10(n - 1) /\ (n = 10 \/ v < Pow10(n))

\* v / 10^drop rounded to the nearest integer, ties to even (1 <= drop <= 9);
\* sticky tells that digits below those of v were cut off and were not all 0.
RoundDrop(v, drop, sticky) ==
    LET q    == v \div Pow10(drop)
        rem  == v % Pow10(drop)
        half == 5 * Pow10(drop - 1)
    IN  IF rem > half \/ (rem = half /\ (sticky \/ q % 2 = 1)) THEN q + 1 ELSE q

FZero == [k |-> "fin", m |-> 0, e |-> 0]
FInf  == [k |-> "inf", m |-> 0, e |-> 0]
FNaN  == [k |-> "nan", m |-> 0, e |-> 0]

\* The float64 nearest v * 10^e, for 0 <= v < 2^31.
FRound(v0, e0, sticky) ==
    CHOOSE r \in {
        IF v = 0 THEN FZero
        ELSE IF n <= 8
             THEN [k |-> "fin", m |-> v * Pow10(8 - n), e |-> e - (8 - n)]
             ELSE LET m1 == RoundDrop(v, n - 8, sticky)
                  IN  IF m1 = Pow10(8)
                      THEN [k |-> "fin", m |-> Pow10(7), e |-> e + (n - 8) + 1]
                      ELSE [k |-> "fin", m |-> m1, e |-> e + (n - 8)]
      : v \in {v0}, e \in {e0}, n \in {IF v0 = 0 THEN 0 ELSE NumDigits(v0)}} : TRUE

\* The decimal literal m * 10^e, and the conversion float64(a) of an int.
FDec(m, e) == FRound(m, e, FALSE)
FInt(a)    == FRound(a, 0, FALSE)

\* Go's x == 0 on float64 (false for NaN and +Inf).
FIsZero(x0) == \E x \in {x0} : x.k = "fin" /\ x.m = 0

\* Go's x == y on float64 (false when either is NaN).
FEq(x0, y0) == \E x \in {x0}, y \in {y0} : x.k # "nan" /\ x = y

\* x + y
FAdd(x0, y0) ==
    CHOOSE r \in {
        CASE x.k = "nan" \/ y.k = "nan" -> FNaN
          [] x.k = "inf" \/ y.k = "inf" -> FInf
          [] x.m = 0 -> y
          [] y.m = 0 -> x
          [] OTHER ->
               LET hi   == IF x.e >= y.e THEN x ELSE y
                   lo   == IF x.e >= y.e THEN y ELSE x
                   diff == hi.e - lo.e
               IN  IF diff > 9 THEN hi
                   ELSE FRound(hi.m * 10 + ((lo.m * 10) \div Pow10(diff)),
                               hi.e - 1, (lo.m * 10) % Pow10(diff) # 0)
      : x \in {x0}, y \in {y0}} : TRUE

\* x * y  (Inf * 0 is NaN).  The mantissas are split in halves of 4 digits;
\* their product is h * 10^8 + l with l < 10^8, of which the first 9 digits
\* are rounded.
FMul(x0, y0) ==
    CHOOSE r \in {
        CASE x.k = "nan" \/ y.k = "nan" -> FNaN
          [] (x.k = "inf" \/ y.k = "inf") /\ (FIsZero(x) \/ FIsZero(y)) -> FNaN
          [] x.k = "inf" \/ y.k = "inf" -> FInf
          [] x.m = 0 \/ y.m = 0 -> FZero
          [] OTHER ->
               LET a   == x.m \div 10000
                   b   == x.m % 10000
                   c   == y.m \div 10000
                   d   == y.m % 10000
                   mid == a * d + b * c
                   low == (mid % 10000) * 10000 + b * d
                   h   == a * c + (mid \div 10000) + (low \div Pow10(8))
                   l   == low % Pow10(8)
                   up  == IF h >= Pow10(7) THEN 1 ELSE 2
               IN  FRound(h * Pow10(up) + (l \div Pow10(8 - up)),
                          x.e + y.e + 8 - up, l % Pow10(8 - up) # 0)
      : x \in {x0}, y \in {y0}} : TRUE

RECURSIVE FDivDigits(_, _, _, _)
\* The long division of r * 10^n by d (r < d), n digits more to come after
\* the digits q: <<quotient, whether the division left a remainder>>.
FDivDigits(r0, d0, n0, q0) ==
    CHOOSE res \in {
        IF n = 0 THEN <<q, r # 0>>
        ELSE FDivDigits((r * 10) % d, d, n - 1, q * 10 + ((r * 10) \div d))
      : r \in {r0}, d \in {d0}, n \in {n0}, q \in {q0}} : TRUE

\* x / y  (0/0 and Inf/Inf are NaN, x/0 is +Inf for x > 0; Go does not panic
\* on a float64 division by zero).  The quotient of the mantissas is taken
\* to 9 digits, the first of them not 0.
FDiv(x0, y0) ==
    CHOOSE r \in {
        CASE x.k = "nan" \/ y.k = "nan" -> FNaN
          [] x.k = "inf" /\ y.k = "inf" -> FNaN
          [] x.k = "inf" -> FInf
          [] y.k = "inf" -> FZero
          [] y.m = 0 /\ x.m = 0 -> FNaN
          [] y.m = 0 -> FInf
          [] x.m = 0 -> FZero
          [] OTHER ->
               CHOOSE r2 \in {
                   FRound(qs[1], x.e - y.e - 8 - (IF x.m >= y.m THEN 0 ELSE 1), qs[2])
                 : qs \in {LET n == IF x.m >= y.m THEN x.m ELSE x.m * 10
                           IN  FDivDigits(n % y.m, y.m, 8, n \div y.m)}} : TRUE
      : x \in {x0}, y \in {y0}} : TRUE

\* math.Pow(x, 2)
FPow2(x0) == CHOOSE r \in {FMul(x, x) : x \in {x0}} : TRUE

\* The float64 nearest a/b, for natural numbers a and b > 0.
FNum(a, b) == FDiv(FInt(a), FInt(b))

\* x <= y for finite x, y.
FLeq(x0, y0) ==
    \E x \in {x0}, y \in {y0} :
        \/ x.m = 0
        \/ y.m # 0 /\ (x.e < y.e \/ (x.e = y.e /\ x.m <= y.m))

\* |x - y| for finite x, y.
FAbsDiff(x0, y0) ==
    CHOOSE r \in {
        CASE x.m = 0 -> y
          [] y.m = 0 -> x
          [] OTHER ->
               LET hi   == IF x.e >= y.e THEN x ELSE y
                   lo   == IF x.e >= y.e THEN y ELSE x
                   diff == hi.e - lo.e
                   sub  == hi.m * 10 - ((lo.m * 10) \div Pow10(diff))
               IN  IF diff > 9 THEN hi
                   ELSE FRound(IF sub < 0 THEN -sub ELSE sub, hi.e - 1, FALSE)
      : x \in {x0}, y \in {y0}} : TRUE

\* |x - y| <= a/b for finite x, y (a, b natural numbers, b > 0).
FWithin(x0, y0, a, b) ==
    \E x \in {x0}, y \in {y0} :
        /\ x.k = "fin" /\ y.k = "fin"
        /\ FLeq(FAbsDiff(x, y), FNum(a, b))

(***************************************************************************)
(* Formatting (package fmt).                                               *)
(***************************************************************************)
DigitChars == <<"0", "1", "2", "3", "4", "5", "6", "7", "8", "9">>

\* The decimal digits of a natural number v < 10^9, most significant first.
NatChars(v0) ==
    CHOOSE r \in {
        LET all == <<DigitChars[((v \div Pow10(8)) % 10) + 1],
                     DigitChars[((v \div Pow10(7)) % 10) + 1],
                     DigitChars[((v \div Pow10(6)) % 10) + 1],
                     DigitChars[((v \div Pow10(5)) % 10) + 1],
                     DigitChars[((v \div Pow10(4)) % 10) + 1],
                     DigitChars[((v \div Pow10(3)) % 10) + 1],
                     DigitChars[((v \div Pow10(2)) % 10) + 1],
                     DigitChars[((v \div Pow10(1)) % 10) + 1],
                     DigitChars[(v % 10) + 1]>>
        IN  SubSeq(all, IF v = 0 THEN 9 ELSE 10 - NumDigits(v), 9)
      : v \in {v0}} : TRUE

\* n characters "0".
Zeros(n) == IF n <= 0 THEN << >> ELSE [j \in 1 .. n |-> "0"]

\* The verb %.2f on a float64: the characters printed.  h is the digits of
\* the value times 100, rounded to an integer (ties to even, as strconv
\* rounds an exact decimal tie), at least 3 of them.
FormatF2(x0) ==
    CHOOSE r \in {
        CASE x.k = "nan" -> <<"N", "a", "N">>
          [] x.k = "inf" -> <<"+", "I", "n", "f">>
          [] OTHER ->
               CHOOSE r2 \in {
                   SubSeq(h, 1, Len(h) - 2) \o <<".">> \o SubSeq(h, Len(h) - 1, Len(h))
                 : h \in {LET d == IF x.e + 2 >= 0 THEN NatChars(x.m) \o Zeros(x.e + 2)
                                   ELSE IF x.e + 2 < -9 THEN <<"0">>
                                   ELSE NatChars(RoundDrop(x.m, -(x.e + 2), FALSE))
                          IN  Zeros(3 - Len(d)) \o d}} : TRUE
      : x \in {x0}} : TRUE

\* The verb %v on a float64 that holds a whole number below 1e21 (the
\* minutes of a whole-minute duration): its digits, without a point.
FormatV(x0) ==
    CHOOSE r \in {
        CASE x.k = "nan" -> <<"N", "a", "N">>
          [] x.k = "inf" -> <<"+", "I", "n", "f">>
          [] x.e >= 0 -> NatChars(x.m) \o Zeros(x.e)
          [] OTHER -> NatChars(x.m \div Pow10(-x.e))
      : x \in {x0}} : TRUE

(***************************************************************************)
(* Package time.  A Duration is held in whole minutes (the model's inputs  *)
(* are whole-minute durations, as all durations of main are).              *)
(***************************************************************************)
\* Duration.Hours(): float64(d / Hour) + float64(d % Hour) / (one hour)
Hours(d) == FAdd(FInt(d \div 60), FDiv(FInt(d % 60), FInt(60)))

\* Duration.Minutes(): float64(d / Minute) + float64(d % Minute) / (one minute)
Minutes(d) == FInt(d)

(***************************************************************************)
(* The program's constants.                                                *)
(***************************************************************************)
MInKm      == 1000
MinInHours == 60
CmInM      == 100
LenStep    == FDec(65, -2)

CaloriesMeanSpeedMultiplier == 18
CaloriesMeanSpeedShift      == FDec(179, -2)

CaloriesWeightMultiplier      == FDec(35, -3)
CaloriesSpeedHeightMultiplier == FDec(29, -3)
KmHInMsec                     == FDec(278, -3)

SwimmingLenStep                  == FDec(138, -2)
SwimmingCaloriesMeanSpeedShift   == FDec(11, -1)
SwimmingCaloriesWeightMultiplier == 2

(***************************************************************************)
(* Training and InfoMessage.  A Training is a record                       *)
(*   [TrainingType, Action, LenStep, Duration, Weight]                     *)
(* with Action an int, LenStep and Weight float64 and Duration in minutes. *)
(***************************************************************************)
Training_distance(t) ==
    FDiv(FMul(FInt(t.Action), t.LenStep), FInt(MInKm))

\* Training.meanSpeed without its zero-duration guard.
Training_meanSpeed_NoGuard(t) ==
    FDiv(Training_distance(t), Hours(t.Duration))

Training_meanSpeed(t) ==
    LET timeOfTrainingInHours == Hours(t.Duration)
    IN  IF FIsZero(timeOfTrainingInHours) THEN FInt(0)
        ELSE FDiv(Training_distance(t), timeOfTrainingInHours)

Training_Calories(t) == FInt(0)

InfoMessage(t, distance, speed, calories) ==
    [Training |-> t, Distance |-> distance, Speed |-> speed,
     Calories |-> calories]

Training_TrainingInfo(t) ==
    InfoMessage(t, Training_distance(t), Training_meanSpeed(t),
                Training_Calories(t))

\* InfoMessage.String(): the pieces of the formatted text in order, the fixed
\* text as strings and each formatted value as its sequence of characters.
InfoMessage_String(i0) ==
    CHOOSE text \in {
        <<"Training type: ", i.Training.TrainingType,
          "\nDuration: ", FormatV(Minutes(i.Training.Duration)),
          " min\nDistance: ", FormatF2(i.Distance),
          " km.\nAvg. speed: ", FormatF2(i.Speed),
          " km/h\nCalories burned: ", FormatF2(i.Calories), "\n">>
      : i \in {i0}} : TRUE

(***************************************************************************)
(* The variants.  An activity is a record                                  *)
(*   [variant, Training, Height, LengthPool, CountPool]                    *)
(* where variant names the dynamic type; Height is a field of Walking and  *)
(* LengthPool, CountPool of Swimming only (zero in the other variants,     *)
(* which never read them).  Methods of the embedded Training are promoted: *)
(* r.distance() is r.Training.distance().                                  *)
(***************************************************************************)
\* Running.Calories with the speed multiplied by the shift, as the wording of
\* the comment above the method reads, instead of the shift added.
Running_Calories_ShiftMultiplied(r) ==
    LET runnigMeanSpeed      == Training_meanSpeed(r.Training)
        runningTimeInMinutes == FMul(Hours(r.Training.Duration), FInt(MinInHours))
        runningMeanSpeedModifier ==
            FMul(FMul(FInt(CaloriesMeanSpeedMultiplier), runnigMeanSpeed),
                 CaloriesMeanSpeedShift)
    IN  FMul(FDiv(FMul(runningMeanSpeedModifier, r.Training.Weight), FInt(MInKm)),
             runningTimeInMinutes)

Running_Calories(r) ==
    LET runnigMeanSpeed      == Training_meanSpeed(r.Training)
        runningTimeInMinutes == FMul(Hours(r.Training.Duration), FInt(MinInHours))
        runningMeanSpeedModifier ==
            FAdd(FMul(FInt(CaloriesMeanSpeedMultiplier), runnigMeanSpeed),
                 CaloriesMeanSpeedShift)
    IN  FMul(FDiv(FMul(runningMeanSpeedModifier, r.Training.Weight), FInt(MInKm)),
             runningTimeInMinutes)

Running_TrainingInfo(r) ==
    InfoMessage(r.Training, Training_distance(r.Training),
                Training_meanSpeed(r.Training), Running_Calories(r))

\* Walking.Calories with the height left in centimetres.
Walking_Calories_HeightInCm(w) ==
    LET walkingMeanSpeedInMetresPerSecond ==
            FMul(Training_meanSpeed(w.Training), KmHInMsec)
        trainingTimeInMinutes == FMul(Hours(w.Training.Duration), FInt(MinInHours))
        firstWeightModifier   == FMul(CaloriesWeightMultiplier, w.Training.Weight)
        secondWeightModifier  == FMul(CaloriesSpeedHeightMultiplier, w.Training.Weight)
        walkingSpeedModifier  ==
            FDiv(FPow2(walkingMeanSpeedInMetresPerSecond), w.Height)
    IN  FMul(FAdd(firstWeightModifier,
                  FMul(walkingSpeedModifier, secondWeightModifier)),
             trainingTimeInMinutes)

Walking_Calories(w) ==
    LET walkingMeanSpeedInMetresPerSecond ==
            FMul(Training_meanSpeed(w.Training), KmHInMsec)
        heightInMetres        == FDiv(w.Height, FInt(CmInM))
        trainingTimeInMinutes == FMul(Hours(w.Training.Duration), FInt(MinInHours))
        firstWeightModifier   == FMul(CaloriesWeightMultiplier, w.Training.Weight)
        secondWeightModifier  == FMul(CaloriesSpeedHeightMultiplier, w.Training.Weight)
        walkingSpeedModifier  ==
            FDiv(FPow2(walkingMeanSpeedInMetresPerSecond), heightInMetres)
    IN  FMul(FAdd(firstWeightModifier,
                  FMul(walkingSpeedModifier, secondWeightModifier)),
             trainingTimeInMinutes)

Walking_TrainingInfo(w) ==
    InfoMessage(w.Training, Training_distance(w.Training),
                Training_meanSpeed(w.Training), Walking_Calories(w))

\* Swimming.meanSpeed computed from the strokes, as the base formula does.
Swimming_meanSpeed_FromStrokes(s) == Training_meanSpeed(s.Training)

Swimming_meanSpeed(s) ==
    LET timeOfTrainingInHours == Hours(s.Training.Duration)
    IN  IF FIsZero(timeOfTrainingInHours) THEN FInt(0)
        ELSE FDiv(FDiv(FMul(FInt(s.LengthPool), FInt(s.CountPool)), FInt(MInKm)),
                  timeOfTrainingInHours)

\* Swimming.Calories without the factor of the training time.
Swimming_Calories_NoTime(s) ==
    LET swimmingMeanSpeed == Swimming_meanSpeed(s)
    IN  FMul(FMul(FAdd(swimmingMeanSpeed, SwimmingCaloriesMeanSpeedShift),
                  FInt(SwimmingCaloriesWeightMultiplier)),
             s.Training.Weight)

Swimming_Calories(s) ==
    LET swimmingMeanSpeed == Swimming_meanSpeed(s)
        trainingTime      == Hours(s.Training.Duration)
    IN  FMul(FMul(FMul(FAdd(swimmingMeanSpeed, SwimmingCaloriesMeanSpeedShift),
                       FInt(SwimmingCaloriesWeightMultiplier)),
                  s.Training.Weight),
             trainingTime)

\* Swimming.TrainingInfo with the distance taken from the pool geometry.
Swimming_TrainingInfo_PoolDistance(s) ==
    InfoMessage(s.Training,
                FDiv(FMul(FInt(s.LengthPool), FInt(s.CountPool)), FInt(MInKm)),
                Swimming_meanSpeed(s), Swimming_Calories(s))

\* Swimming without a TrainingInfo of its own: the promoted method of the
\* embedded Training, which calls the base meanSpeed and Calories.
Swimming_TrainingInfo_Promoted(s) == Training_TrainingInfo(s.Training)

Swimming_TrainingInfo(s) ==
    InfoMessage(s.Training, Training_distance(s.Training),
                Swimming_meanSpeed(s), Swimming_Calories(s))

(***************************************************************************)
(* Method resolution on a value of each type, and the CaloriesCalculator   *)
(* interface (Calories, TrainingInfo), which all four types implement.     *)
(***************************************************************************)
distance(a) == Training_distance(a.Training)

meanSpeed(a) ==
    IF a.variant = "Swimming" THEN Swimming_meanSpeed(a)
    ELSE Training_meanSpeed(a.Training)

Calories(a) ==
    CASE a.variant = "Running"  -> Running_Calories(a)
      [] a.variant = "Walking"  -> Walking_Calories(a)
      [] a.variant = "Swimming" -> Swimming_Calories(a)
      [] OTHER                  -> Training_Calories(a.Training)

TrainingInfo(a) ==
    CASE a.variant = "Running"  -> Running_TrainingInfo(a)
      [] a.variant = "Walking"  -> Walking_TrainingInfo(a)
      [] a.variant = "Swimming" -> Swimming_TrainingInfo(a)
      [] OTHER                  -> Training_TrainingInfo(a.Training)

\* ReadData: the local info as it is formatted (after line 233), and the
\* string returned (fmt.Sprint of an InfoMessage prints its String()).
ReadData(training) ==
    LET calories == Calories(training)
        info     == TrainingInfo(training)
        final    == [info EXCEPT !.Calories = calories]
    IN  [info |-> final, text |-> InfoMessage_String(final)]

(***************************************************************************)
(* The activities of main, and the bounded set of activities explored.     *)
(***************************************************************************)
NewTraining(type, action, lenStep, duration, weight) ==
    [TrainingType |-> type, Action |-> action, LenStep |-> lenStep,
     Duration |-> duration, Weight |-> weight]

NewActivity(variant, t, height, lengthPool, countPool) ==
    [variant |-> variant, Training |-> t, Height |-> height,
     LengthPool |-> lengthPool, CountPool |-> countPool]

Main_swimming ==
    NewActivity("Swimming",
                NewTraining("Swimming", 2000, SwimmingLenStep, 90, FInt(85)),
                FInt(0), 50, 5)

Main_walking ==
    NewActivity("Walking",
                NewTraining("Walking", 20000, LenStep, 3 * 60 + 45, FInt(85)),
                FInt(185), 0, 0)

Main_running ==
    NewActivity("Running",
                NewTraining("Running", 5000, LenStep, 30, FInt(85)),
                FInt(0), 0, 0)

MaxAction    == 2
MaxHalfHours == 2
MaxCountPool == 1
MaxInfoCalls == 2

Actions     == 0 .. MaxAction
LenSteps    == {LenStep, SwimmingLenStep}
Durations   == {30 * k : k \in 0 .. MaxHalfHours}
Weights     == {FInt(0), FInt(85)}
Heights     == {FInt(0), FInt(185)}
LengthPools == {25, 50}
CountPools  == 0 .. MaxCountPool

Trainings(type) ==
    {NewTraining(type, a, l, d, w) :
        a \in Actions, l \in LenSteps, d \in Durations, w \in Weights}

Activities ==
    {Main_swimming, Main_walking, Main_running}
    \cup {NewActivity("Training", t, FInt(0), 0, 0) : t \in Trainings("Training")}
    \cup {NewActivity("Running", t, FInt(0), 0, 0) : t \in Trainings("Running")}
    \cup {NewActivity("Walking", t, h, 0, 0) :
            t \in Trainings("Walking"), h \in Heights}
    \cup {NewActivity("Swimming", t, FInt(0), lp, cp) :
            t \in Trainings("Swimming"), lp \in LengthPools, cp \in CountPools}

(***************************************************************************)
(* State.                                                                  *)
(*   inst       the activity the calls are made on                         *)
(*   op         the call that returned last ("new" after construction)     *)
(*   ret        what that call returned: f, the float64 of distance,       *)
(*              meanSpeed or Calories; info, the InfoMessage of            *)
(*              TrainingInfo (for String its receiver, for ReadData its    *)
(*              local info as formatted); text, the text of String or      *)
(*              ReadData.  The fields the call does not produce are zero.  *)
(*   nInfo      the number of TrainingInfo calls made on inst so far       *)
(*   firstInfo  what the first of them returned                            *)
(***************************************************************************)
VARIABLES inst, op, ret, nInfo, firstInfo

vars == <<inst, op, ret, nInfo, firstInfo>>

\* The zero value InfoMessage{}.
ZeroInfo ==
    InfoMessage(NewTraining("", 0, FInt(0), 0, FInt(0)), FInt(0), FInt(0), FInt(0))

Returned(f, i, t) == [f |-> f, info |-> i, text |-> t]

Init ==
    /\ inst \in Activities
    /\ op = "new"
    /\ ret = Returned(FInt(0), ZeroInfo, << >>)
    /\ nInfo = 0
    /\ firstInfo = ZeroInfo

Call_distance ==
    /\ op' = "distance"
    /\ ret' = Returned(distance(inst), ZeroInfo, << >>)
    /\ UNCHANGED <<inst, nInfo, firstInfo>>

Call_meanSpeed ==
    /\ op' = "meanSpeed"
    /\ ret' = Returned(meanSpeed(inst), ZeroInfo, << >>)
    /\ UNCHANGED <<inst, nInfo, firstInfo>>

Call_Calories ==
    /\ op' = "Calories"
    /\ ret' = Returned(Calories(inst), ZeroInfo, << >>)
    /\ UNCHANGED <<inst, nInfo, firstInfo>>

Call_TrainingInfo ==
    /\ nInfo < MaxInfoCalls
    /\ op' = "TrainingInfo"
    /\ ret' = Returned(FInt(0), TrainingInfo(inst), << >>)
    /\ nInfo' = nInfo + 1
    /\ firstInfo' = IF nInfo = 0 THEN ret'.info ELSE firstInfo
    /\ UNCHANGED inst

\* InfoMessage.String() on the InfoMessage that TrainingInfo just returned.
Call_String ==
    /\ op = "TrainingInfo"
    /\ op' = "String"
    /\ ret' = Returned(FInt(0), ret.info, InfoMessage_String(ret.info))
    /\ UNCHANGED <<inst, nInfo, firstInfo>>

\* ReadData writing through to the activity: the repetitions are reset once
\* they are reported.
Call_ReadData_Resetting ==
    /\ nInfo < MaxInfoCalls
    /\ op' = "ReadData"
    /\ \E r \in {ReadData(inst)} : ret' = Returned(FInt(0), r.info, r.text)
    /\ nInfo' = nInfo + 1
    /\ firstInfo' = IF nInfo = 0 THEN TrainingInfo(inst) ELSE firstInfo
    /\ inst' = [inst EXCEPT !.Training.Action = 0]

Call_ReadData ==
    /\ nInfo < MaxInfoCalls
    /\ op' = "ReadData"
    /\ \E r \in {ReadData(inst)} : ret' = Returned(FInt(0), r.info, r.text)
    /\ nInfo' = nInfo + 1
    /\ firstInfo' = IF nInfo = 0 THEN TrainingInfo(inst) ELSE firstInfo
    /\ UNCHANGED inst

Next ==
    \/ Call_distance
    \/ Call_meanSpeed
    \/ Call_Calories
    \/ Call_TrainingInfo
    \/ Call_String
    \/ Call_ReadData

Spec == Init /\ [][Next]_vars

(***************************************************************************)
(* Properties.                                                             *)
(***************************************************************************)
\* The calls that hand back an InfoMessage in ret.info.
InfoOps == {"TrainingInfo", "String", "ReadData"}

\* The duration of inst in hours and in minutes, as numbers.
DurationHours   == FNum(inst.Training.Duration, 60)
DurationMinutes == FInt(inst.Training.Duration)

\* repetitions * step_length_m / 1000
ExpectedDistance ==
    FDiv(FMul(FInt(inst.Training.Action), inst.Training.LenStep), FInt(1000))

\* C1: for every variant, distance() and the Distance of the InfoMessage of
\* TrainingInfo() (also as ReadData formats it) equal
\* repetitions * step_length_m / 1000, whatever LengthPool and CountPool are.
C1_DistanceIsRepetitionsTimesStep ==
    /\ op = "distance" => FEq(ret.f, ExpectedDistance)
    /\ op \in InfoOps => FEq(ret.info.Distance, ExpectedDistance)

\* A Swimming whose pool geometry gives another distance than its strokes.
C1_Witness ==
    /\ inst.variant = "Swimming"
    /\ op = "TrainingInfo"
    /\ inst.Training.Action > 0
    /\ ~FEq(ret.info.Distance,
            FDiv(FInt(inst.LengthPool * inst.CountPool), FInt(1000)))

\* C2: with a duration of exactly 0 the mean speed is 0 (a finite value, no
\* division by zero), for the base formula and for Swimming's override.
C2_ZeroDurationZeroSpeed ==
    inst.Training.Duration = 0 =>
        /\ op = "meanSpeed" => FIsZero(ret.f)
        /\ op \in InfoOps => FIsZero(ret.info.Speed)

\* A Running of zero duration with a non-zero distance: 0.65/1000 km in 0 h.
C2_Witness ==
    /\ inst.variant = "Running"
    /\ inst.Training.Duration = 0
    /\ inst.Training.Action > 0
    /\ op = "meanSpeed"
    /\ FIsZero(ret.f)

\* (18*6.5+1.79)*85/1000*30
C3_Formula ==
    FMul(FDiv(FMul(FAdd(FMul(FInt(18), FNum(65, 10)), FNum(179, 100)), FInt(85)),
              FInt(1000)),
         FInt(30))

C3_SampleSummary(calories) ==
    (inst = Main_running /\ op \in InfoOps) =>
        /\ FEq(ret.info.Distance, FNum(325, 100))
        /\ FEq(ret.info.Speed, FNum(65, 10))
        /\ FEq(ret.info.Calories, C3_Formula)
        /\ FWithin(ret.info.Calories, calories, 1, 100)

C4_SwimmingSample ==
    (inst = Main_swimming /\ op \in InfoOps) =>
        /\ FEq(ret.info.Speed, FDiv(FDiv(FInt(50 * 5), FInt(1000)), FNum(15, 10)))
        /\ FWithin(ret.info.Speed, FNum(1667, 10000), 1, 10000)
        /\ FEq(ret.info.Distance, FDiv(FMul(FInt(2000), FNum(138, 100)), FInt(1000)))
        /\ FEq(ret.info.Distance, FNum(276, 100))
        /\ FEq(ret.info.Calories,
               FMul(FMul(FMul(FAdd(ret.info.Speed, FNum(11, 10)), FInt(2)), FInt(85)),
                    FNum(15, 10)))
        /\ FWithin(ret.info.Calories, FInt(323), 1, 100)

\* TrainingInfo of the Swimming sample.
C4_Witness ==
    /\ inst = Main_swimming
    /\ op = "TrainingInfo"
    /\ ret.info.Training.Action = 2000

\* (0.035*85 + ((13.0/3.75*0.278)^2 / (185/100)) * 0.029*85) * 225
C5_Formula ==
    LET speed == FDiv(FInt(13), FNum(375, 100))
        ms    == FMul(speed, FNum(278, 1000))
    IN  FMul(FAdd(FMul(FNum(35, 1000), FInt(85)),
                  FMul(FMul(FDiv(FMul(ms, ms), FDiv(FInt(185), FInt(100))),
                            FNum(29, 1000)),
                       FInt(85))),
             FInt(3 * 60 + 45))

\* C5: the Walking sample has distance 13.0, mean speed 13.0/3.75 (about
\* 3.467) and calories within 1e-2 of
\* (0.035*weight + ((mean_speed*0.278)^2/(height_cm/100))*0.029*weight)*minutes.
C5_WalkingSample ==
    (inst = Main_walking /\ op \in InfoOps) =>
        /\ FEq(ret.info.Distance, FInt(13))
        /\ FEq(ret.info.Speed, FDiv(FInt(13), FNum(375, 100)))
        /\ FWithin(ret.info.Speed, FNum(3467, 1000), 1, 1000)
        /\ FWithin(ret.info.Calories, C5_Formula, 1, 100)

\* String() on the InfoMessage of the Walking sample.
C5_Witness ==
    /\ inst = Main_walking
    /\ op = "String"
    /\ ret.info.Calories.k = "fin"

\* pool_length_m * lap_count / 1000 / duration_hours
C6_PoolSpeed ==
    FDiv(FDiv(FInt(inst.LengthPool * inst.CountPool), FInt(1000)), DurationHours)

\* The calories of the variant of inst by the formula of its section of the
\* specification, from the mean speed given.
C6_VariantCalories(speed) ==
    CASE inst.variant = "Running" ->
           FMul(FDiv(FMul(FAdd(FMul(FInt(18), speed), FNum(179, 100)),
                          inst.Training.Weight),
                     FInt(1000)),
                DurationMinutes)
      [] inst.variant = "Walking" ->
           FMul(FAdd(FMul(FNum(35, 1000), inst.Training.Weight),
                     FMul(FDiv(FPow2(FMul(speed, FNum(278, 1000))),
                               FDiv(inst.Height, FInt(100))),
                          FMul(FNum(29, 1000), inst.Training.Weight))),
                DurationMinutes)
      [] inst.variant = "Swimming" ->
           FMul(FMul(FMul(FAdd(speed, FNum(11, 10)), FInt(2)),
                     inst.Training.Weight),
                DurationHours)
      [] OTHER -> FInt(0)

\* C6: the InfoMessage that ReadData formats carries the results of the
\* variant's own methods: its Calories is the value of the variant's formula
\* (non-zero for Running, Walking and Swimming of positive duration and
\* weight, where the base Calories gives 0), for Swimming its Speed is
\* pool_length_m * lap_count / 1000 / duration_hours, and that Speed is the
\* one inside Swimming's calories.
C6_ReadDataCarriesOverrides ==
    op = "ReadData" =>
        /\ LET expected == C6_VariantCalories(ret.info.Speed)
           IN  /\ ret.info.Calories.k = expected.k
               /\ expected.k = "fin" => FEq(ret.info.Calories, expected)
        /\ (inst.variant = "Swimming" /\ inst.Training.Duration # 0) =>
               FEq(ret.info.Speed, C6_PoolSpeed)
        /\ (inst.variant # "Training" /\ inst.Training.Duration # 0
               /\ ~FIsZero(inst.Training.Weight)) =>
               ~FIsZero(ret.info.Calories)

\* ReadData of a Swimming whose pool geometry gives another speed than its
\* strokes do, and whose calories are a positive finite number.
C6_Witness ==
    /\ inst.variant = "Swimming"
    /\ op = "ReadData"
    /\ inst.Training.Duration # 0
    /\ inst.CountPool > 0
    /\ ~FEq(ret.info.Speed, FDiv(ExpectedDistance, DurationHours))
    /\ ret.info.Calories.k = "fin"
    /\ ~FIsZero(ret.info.Calories)

\* C7: Calories() of a Walking whose height is 0 surfaces an input-validation
\* error: the call does not return a float64, neither the result of the
\* division by the zero height (+Inf, NaN) nor a finite default.
C7_ZeroHeightSurfacesError ==
    (inst.variant = "Walking" /\ FIsZero(inst.Height) /\ op = "Calories") =>
        ret.f.k \notin {"fin", "inf", "nan"}

\* C8: every TrainingInfo() on an instance, and the InfoMessage that every
\* ReadData formats, is identical to what the first TrainingInfo() on that
\* instance returned, whatever calls were made in between, and no call
\* changes a field of the instance.
C8_TrainingInfoIdempotent ==
    /\ [](op \in InfoOps => ret.info = firstInfo)
    /\ [][inst' = inst]_vars

\* A second TrainingInfo() after a call of Calories() on an activity with
\* non-zero results.
C8_Witness ==
    /\ op = "TrainingInfo"
    /\ nInfo = 2
    /\ ret.info = firstInfo
    /\ ~FIsZero(ret.info.Distance)
    /\ ~FIsZero(ret.info.Calories)

Digits == {"0", "1", "2", "3", "4", "5", "6", "7", "8", "9"}

\* Digits, a point and exactly two digits.
TwoDecimals(cs) ==
    /\ Len(cs) >= 4
    /\ cs[Len(cs) - 2] = "."
    /\ \A j \in 1 .. Len(cs) : j # Len(cs) - 2 => cs[j] \in Digits

\* C9: the formatted text of every InfoMessage lists type label, duration in
\* minutes, distance, average speed and calories in this order, the minutes
\* without a fixed precision, and distance, speed and calories each with
\* exactly 2 digits after the decimal point.
C9_FormattedText ==
    op \in {"String", "ReadData"} =>
        /\ Len(ret.text) = 11
        /\ ret.text[1] = "Training type: "
        /\ ret.text[2] = ret.info.Training.TrainingType
        /\ ret.text[3] = "\nDuration: "
        /\ ret.text[4] = FormatV(Minutes(ret.info.Training.Duration))
        /\ ret.text[5] = " min\nDistance: "
        /\ ret.text[6] = FormatF2(ret.info.Distance)
        /\ TwoDecimals(ret.text[6])
        /\ ret.text[7] = " km.\nAvg. speed: "
        /\ ret.text[8] = FormatF2(ret.info.Speed)
        /\ TwoDecimals(ret.text[8])
        /\ ret.text[9] = " km/h\nCalories burned: "
        /\ ret.text[10] = FormatF2(ret.info.Calories)
        /\ TwoDecimals(ret.text[10])
        /\ ret.text[11] = "\n"

\* C10: with a duration of exactly 0 the calories are 0, for the base
\* Training, Running, Swimming and a Walking whose height is not 0.
C10_ZeroDurationZeroCalories ==
    (inst.Training.Duration = 0
        /\ ~(inst.variant = "Walking" /\ FIsZero(inst.Height))) =>
        /\ op = "Calories" => FIsZero(ret.f)
        /\ op \in InfoOps => FIsZero(ret.info.Calories)

\* Calories() of a Walking of height 185 cm, 85 kg and zero duration.
C10_Witness ==
    /\ inst.variant = "Walking"
    /\ inst.Training.Duration = 0
    /\ ~FIsZero(inst.Height)
    /\ ~FIsZero(inst.Training.Weight)
    /\ op = "Calories"
    /\ FIsZero(ret.f)

=============================================================================
